---- MODULE Spec2Model ----
(***************************************************************************)
(* Model of the cw1-backend Express/MongoDB server: the Lessons and Orders  *)
(* collections and the request handlers that read and write them.          *)
(*                                                                         *)
(* A MongoDB document is a function from the names of the fields it holds  *)
(* to their values: a field the request body leaves out is not in the      *)
(* DOMAIN (JavaScript's undefined).                                        *)
(***************************************************************************)
EXTENDS Integers, Sequences, FiniteSets, TLC

VARIABLES lessons,   \* Lessons collection: ObjectId -> document
          nextId,    \* next ObjectId insertOne hands out
          orders,    \* Orders collection, in insertion order
          puts,      \* per client: the availability PUT it has in flight
          started,   \* number of availability PUTs begun so far
          resp,      \* the handler that ran last and the HTTP status it sent
          placed,    \* per storefront customer: the seats of its checkout and
                     \* the status of its POST /Kitten/Orders (0: not sent yet)
          shop,      \* storefront page: lesson of this.lessons -> lesson.spaces
          fetched,   \* the spaces each lesson of the page had when fetched
          cart,      \* this.cart: the lessons added, in the order added
          showCart   \* this.showCart

storefront == <<shop, fetched, cart, showCart>>

vars == <<lessons, nextId, orders, puts, started, resp, placed, storefront>>

----------------------------------------------------------------------------
(* Bounds of the model *)

MaxLessons == 1      \* ObjectIds insertOne may hand out: 1..MaxLessons
MaxOrders == 2       \* documents the Orders collection may hold
MaxClients == 1      \* availability PUTs that may be in flight at once
MaxLines == 2        \* lines (items) of one request body
MaxQuantity == 2     \* largest capacity / number of seats a request names
MaxRequests == 2     \* availability PUTs begun in one behaviour
NumCheckouts == 3    \* storefront customers checking out concurrently

Clients == 1..MaxClients

----------------------------------------------------------------------------
(* Documents and request bodies *)

EmptyDoc == [f \in {} |-> 0]

Has(doc, f) == f \in DOMAIN doc

\* { ...doc, ...body }: the fields of body replace or extend those of doc
Merge(doc, body) ==
    [f \in DOMAIN doc \cup DOMAIN body |->
        IF f \in DOMAIN body THEN body[f] ELSE doc[f]]

Field(f, v) == [x \in {f} |-> v]

\* the bodies that hold field f with a value of S, or leave it out
Opt(f, S) == {EmptyDoc} \cup {Field(f, v) : v \in S}

\* ObjectId.isValid(id): 0 stands for a string that is no ObjectId
IsValidObjectId(id) == id >= 1

\* the ids a request may name: 0 is malformed, MaxLessons + 1 is a well-formed
\* ObjectId that insertOne never hands out
LessonIds == 0..MaxLessons
RequestIds == 0..(MaxLessons + 1)

\* JavaScript truthiness of a text field: undefined and "" are falsy
TruthyText(doc, f) == Has(doc, f) /\ doc[f] # ""

\* JavaScript truthiness of a numeric field: undefined and 0 are falsy
TruthyNumber(doc, f) == Has(doc, f) /\ doc[f] # 0

Subjects == {"Math"}
Locations == {"Room 1"}
Prices == {20}
Slots == 0..MaxQuantity

LessonBodies ==
    { Merge(Merge(Merge(Merge(s, l), p), c), a) :
        s \in Opt("subject", Subjects), l \in Opt("location", Locations) \ {EmptyDoc},
        p \in Opt("price", Prices) \ {EmptyDoc}, c \in Opt("capacity", Slots \ {0}),
        a \in Opt("availableSlots", Slots) }

\* the sequences over S of length 0..MaxLines
SeqsUpTo(S) == UNION { [1..n -> S] : n \in 0..MaxLines }

\* one line of the availability PUT: { id, quantity }
Line(id, quantity) == [id |-> id, quantity |-> quantity]

\* the lines a request may hold: one seat of any id, a negative or zero
\* quantity of lesson 1, and a line with no id
Quantities == (0 - 1)..1
PutLines ==
    { Line(i, 1) : i \in RequestIds } \cup { Line(1, q) : q \in Quantities }
        \cup { Field("quantity", 1) }
PutBodies == Opt("lessons", SeqsUpTo(PutLines))

\* the body of POST /Kitten/Orders: { name, phone, items, total, date }
Names == {"Ann"}
Phones == {"123"}
Totals == {20}
Dates == {"2024-01-01"}
Items == Opt("lessonId", 1..MaxLessons)
OrderBodies ==
    { Merge(Merge(Merge(Merge(n, p), i), t), d) :
        n \in Opt("name", Names), p \in Opt("phone", Phones),
        i \in Opt("items", SeqsUpTo(Items)), t \in Opt("total", Totals) \ {EmptyDoc},
        d \in Opt("date", Dates) \ {EmptyDoc} }

----------------------------------------------------------------------------
(* Initial state: both collections empty, no request in flight *)

NoLessons == [i \in {} |-> EmptyDoc]

IdlePut == [lines |-> <<>>, status |-> 0, applied |-> <<>>]

Response(op, status) == [op |-> op, status |-> status]

\* a step that also wrote console.warn about the id it did not find
Warning(op, status, id) == [op |-> op, status |-> status, warn |-> id]

\* data of the Vue app as declared: no lesson fetched, cart empty and hidden
NoStorefront ==
    /\ shop = <<>>
    /\ fetched = <<>>
    /\ cart = <<>>
    /\ showCart = FALSE

Init ==
    /\ lessons = NoLessons
    /\ nextId = 1
    /\ orders = <<>>
    /\ puts = [c \in Clients |-> IdlePut]
    /\ started = 0
    /\ resp = Response("none", 0)
    /\ placed = <<>>
    /\ NoStorefront

----------------------------------------------------------------------------
(* Validation helpers *)

\* validateLesson: TRUE when the body is rejected
validateLesson(lesson) ==
    \/ ~TruthyText(lesson, "subject")
    \/ ~TruthyText(lesson, "location")
    \/ ~Has(lesson, "price")

----------------------------------------------------------------------------
(* Lessons collection *)

Exists(id) == id \in DOMAIN lessons

\* insertOne(doc): the document is stored as sent, under a fresh ObjectId
insertOne(doc) ==
    [i \in DOMAIN lessons \cup {nextId} |-> IF i = nextId THEN doc ELSE lessons[i]]

\* updateOne({_id}, {$set: body}); no match leaves the collection as it is
updateOneSet(id, body) ==
    IF Exists(id)
    THEN [lessons EXCEPT ![id] = Merge(lessons[id], body)]
    ELSE lessons

\* $inc creates a missing field from 0
IncSlots(doc, n) ==
    Merge(doc, Field("availableSlots",
                     (IF Has(doc, "availableSlots") THEN doc["availableSlots"] ELSE 0) + n))

\* the update with upsert: an unmatched id gets a new document
updateOneIncUpsert(id, quantity) ==
    IF Exists(id)
    THEN [lessons EXCEPT ![id] = IncSlots(lessons[id], 0 - quantity)]
    ELSE [i \in DOMAIN lessons \cup {id} |->
            IF i = id THEN IncSlots(EmptyDoc, 0 - quantity) ELSE lessons[i]]

\* updateOne({_id}, {$inc: {availableSlots: -quantity}})
updateOneInc(id, quantity) ==
    IF Exists(id)
    THEN [lessons EXCEPT ![id] = IncSlots(lessons[id], 0 - quantity)]
    ELSE lessons

\* deleteMany({}): every document goes
deleteAll(id) == NoLessons

\* deleteOne({_id})
deleteOne(id) == [i \in DOMAIN lessons \ {id} |-> lessons[i]]

----------------------------------------------------------------------------
(* Catalog handlers: each awaits one database call *)

\* POST /Kitten/Lessons: validated insert
PostLesson(body) ==
    /\ UNCHANGED <<orders, puts, started>>
    /\ IF validateLesson(body)
       THEN /\ resp' = Response("postLesson", 400)
            /\ UNCHANGED <<lessons, nextId>>
       ELSE /\ lessons' = insertOne(body)
            /\ nextId' = nextId + 1
            /\ resp' = Response("postLesson", 201)

\* POST /Kitten/Lessons/:id: insert with no validation
PostLessonById(body) ==
    /\ lessons' = insertOne(body)
    /\ nextId' = nextId + 1
    /\ resp' = Response("postLessonById", 201)
    /\ UNCHANGED <<orders, puts, started>>

\* PUT /Kitten/Lessons/:id with a lesson body: $set of the whole body
PutLesson(id, body) ==
    /\ UNCHANGED <<nextId, orders, puts, started>>
    /\ IF ~IsValidObjectId(id) \/ validateLesson(body)
       THEN /\ resp' = Response("putLesson", 400)
            /\ UNCHANGED lessons
       ELSE /\ lessons' = updateOneSet(id, body)
            /\ resp' = Response("putLesson", IF Exists(id) THEN 200 ELSE 404)

\* a delete that cascades: the orders naming the lesson go with it
DeleteLessonAndOrders(id) ==
    /\ UNCHANGED <<nextId, puts, started>>
    /\ orders' = SelectSeq(orders, LAMBDA o : ~(Has(o, "lessonId") /\ o["lessonId"] = id))
    /\ IF ~IsValidObjectId(id)
       THEN /\ resp' = Response("deleteLesson", 400)
            /\ UNCHANGED lessons
       ELSE /\ lessons' = deleteOne(id)
            /\ resp' = Response("deleteLesson", IF Exists(id) THEN 200 ELSE 404)

\* DELETE /Kitten/Lessons/:id
DeleteLesson(id) ==
    /\ UNCHANGED <<nextId, orders, puts, started>>
    /\ IF ~IsValidObjectId(id)
       THEN /\ resp' = Response("deleteLesson", 400)
            /\ UNCHANGED lessons
       ELSE /\ lessons' = deleteOne(id)
            /\ resp' = Response("deleteLesson", IF Exists(id) THEN 200 ELSE 404)

\* findOne({_id}): the document, or no document
findOne(id) == IF Exists(id) THEN {lessons[id]} ELSE {}

\* what GET /Kitten/Lessons/:id sends: the status, and the lesson found
GetLessonResponse(id) ==
    IF ~IsValidObjectId(id)
    THEN [op |-> "getLesson", id |-> id, status |-> 400, found |-> {}]
    ELSE [op |-> "getLesson", id |-> id,
          status |-> IF findOne(id) # {} THEN 200 ELSE 404, found |-> findOne(id)]

\* findOneAndDelete({_id}): the read takes the document out
GetLessonAndDelete(id) ==
    /\ resp' = GetLessonResponse(id)
    /\ lessons' = deleteOne(id)
    /\ UNCHANGED <<nextId, orders, puts, started>>

\* GET /Kitten/Lessons/:id
GetLesson(id) ==
    /\ resp' = GetLessonResponse(id)
    /\ UNCHANGED <<lessons, nextId, orders, puts, started>>

\* GET /Kitten/Lessons: find({}).toArray()
GetLessons ==
    /\ resp' = [op |-> "getLessons", status |-> 200, list |-> lessons]
    /\ UNCHANGED <<lessons, nextId, orders, puts, started>>

----------------------------------------------------------------------------
(* POST /Kitten/Orders *)

\* the request is refused: a falsy name, phone or items, or no item
InvalidOrderData(body) ==
    \/ ~TruthyText(body, "name")
    \/ ~TruthyText(body, "phone")
    \/ ~Has(body, "items")
    \/ Len(body["items"]) = 0

\* items.map(item => ({ lessonId, customerName, quantity: 1, total, date }))
OrderOf(body, item) ==
    Merge(Merge(Merge(item, [customerName |-> body["name"], quantity |-> 1]),
                IF Has(body, "total") THEN Field("total", body["total"]) ELSE EmptyDoc),
          IF Has(body, "date") THEN Field("date", body["date"]) ELSE EmptyDoc)

\* one document for the whole request, made of its first item
OneOrderOf(body) == <<OrderOf(body, body["items"][1])>>

OrdersOf(body) == [k \in 1..Len(body["items"]) |-> OrderOf(body, body["items"][k])]

\* res.status(201) with result.insertedIds: the places of the n documents
\* insertMany added after the first stored ones
OrderPlaced(first, n) ==
    [op |-> "postOrder", status |-> 201, insertedIds |-> (first + 1)..(first + n)]

\* an order route that also takes a seat of the first item's lesson
PostOrderAndReserve(body) ==
    /\ UNCHANGED <<nextId, puts, started>>
    /\ IF InvalidOrderData(body)
       THEN /\ resp' = Response("postOrder", 400)
            /\ UNCHANGED <<orders, lessons>>
       ELSE /\ orders' = orders \o OrdersOf(body)
            /\ lessons' = IF Has(body["items"][1], "lessonId")
                          THEN updateOneInc(body["items"][1]["lessonId"], 1)
                          ELSE lessons
            /\ resp' = OrderPlaced(Len(orders), Len(OrdersOf(body)))

PostOrder(body) ==
    /\ UNCHANGED <<lessons, nextId, puts, started>>
    /\ IF InvalidOrderData(body)
       THEN /\ resp' = Response("postOrder", 400)
            /\ UNCHANGED orders
       ELSE /\ orders' = orders \o OrdersOf(body)
            /\ resp' = OrderPlaced(Len(orders), Len(OrdersOf(body)))

----------------------------------------------------------------------------
(* PUT /Kitten/Lessons/:id with { lessons: [{ id, quantity }] }: the       *)
(* availability decrement. The handler awaits one updateOne per line, so   *)
(* other requests run between two lines of the same request.               *)

Running(c) == puts[c].lines # <<>>

Finished(status, applied) == [lines |-> <<>>, status |-> status, applied |-> applied]

\* the checks before the loop, and the response of a request with no line
PutAvailabilityBegin(c, body) ==
    /\ ~Running(c)
    /\ started' = started + 1
    /\ UNCHANGED <<lessons, nextId, orders>>
    /\ IF ~Has(body, "lessons")
       THEN /\ puts' = [puts EXCEPT ![c] = Finished(400, <<>>)]
            /\ resp' = Response("putAvailability", 400)
       ELSE IF Len(body["lessons"]) = 0
       THEN /\ puts' = [puts EXCEPT ![c] = Finished(200, <<>>)]
            /\ resp' = Response("putAvailability", 200)
       ELSE /\ puts' = [puts EXCEPT ![c] =
                           [lines |-> body["lessons"], status |-> 0, applied |-> <<>>]]
            /\ resp' = Response("putAvailability", 0)

\* the line is refused: a falsy id or a falsy quantity
InvalidLine(line) == ~Has(line, "id") \/ ~TruthyNumber(line, "quantity")

\* the status after the line: 200 once the loop is over, else still running
AfterLine(c) == IF Len(puts[c].lines) = 1 THEN 200 ELSE 0

\* one turn of the loop: the line's check, its updateOne, and, after the
\* last line, the response
PutAvailabilityStep(c) ==
    /\ Running(c)
    /\ UNCHANGED <<nextId, orders, started>>
    /\ LET line == Head(puts[c].lines) IN
       IF InvalidLine(line)
       THEN /\ puts' = [puts EXCEPT ![c] = Finished(400, puts[c].applied)]
            /\ resp' = Response("putAvailability", 400)
            /\ UNCHANGED lessons
       ELSE IF ~IsValidObjectId(line["id"])
       THEN /\ puts' = [puts EXCEPT ![c] = Finished(500, puts[c].applied)]
            /\ resp' = Response("putAvailability", 500)
            /\ UNCHANGED lessons
       ELSE /\ lessons' = updateOneInc(line["id"], line["quantity"])
            /\ puts' = [puts EXCEPT ![c] =
                           [lines |-> Tail(puts[c].lines),
                            status |-> AfterLine(c),
                            applied |-> IF Exists(line["id"])
                                        THEN Append(puts[c].applied, line)
                                        ELSE puts[c].applied]]
            /\ resp' = IF Exists(line["id"])
                       THEN Response("putAvailability", AfterLine(c))
                       ELSE Warning("putAvailability", AfterLine(c), line["id"])

----------------------------------------------------------------------------
(* The server under any sequence of requests. The guards keep the model    *)
(* finite: ObjectIds, stored orders and availability requests are counted. *)

\* the documents insertMany would add for the body
Inserted(body) == IF InvalidOrderData(body) THEN 0 ELSE Len(body["items"])

Next ==
    \/ \E body \in LessonBodies :
          /\ nextId <= MaxLessons
          /\ PostLesson(body)
          /\ UNCHANGED <<placed, storefront>>
    \/ \E body \in LessonBodies :
          /\ nextId <= MaxLessons
          /\ PostLessonById(body)
          /\ UNCHANGED <<placed, storefront>>
    \/ \E id \in LessonIds, body \in LessonBodies :
          PutLesson(id, body) /\ UNCHANGED <<placed, storefront>>
    \/ \E id \in LessonIds :
          DeleteLesson(id) /\ UNCHANGED <<placed, storefront>>
    \/ \E body \in OrderBodies :
          /\ Len(orders) + Inserted(body) <= MaxOrders
          /\ PostOrder(body)
          /\ UNCHANGED <<placed, storefront>>
    \/ \E c \in Clients, body \in PutBodies :
          /\ started < MaxRequests
          /\ PutAvailabilityBegin(c, body)
          /\ UNCHANGED <<placed, storefront>>
    \/ \E c \in Clients :
          PutAvailabilityStep(c) /\ UNCHANGED <<placed, storefront>>

Spec == Init /\ [][Next]_vars

----------------------------------------------------------------------------
(* Concurrent checkouts of one lesson. A storefront customer checks out    *)
(* its seats with the two requests the server offers: POST /Kitten/Orders  *)
(* with one item per seat, and the availability PUT with one line for the  *)
(* lesson. The requests of all customers interleave freely.                *)

Customers == 1..NumCheckouts

\* a lesson as the catalog creates it: availableSlots = capacity
NewLesson(capacity) ==
    [subject |-> "Math", location |-> "Room 1", price |-> 20,
     capacity |-> capacity, availableSlots |-> capacity]

CheckoutOrderBody(c) ==
    [name |-> ToString(c), phone |-> "123",
     items |-> [k \in 1..placed[c].seats |-> [lessonId |-> 1]],
     total |-> 20 * placed[c].seats, date |-> "2024-01-01"]

CheckoutPutBody(c) == [lessons |-> <<Line(1, placed[c].seats)>>]

InitCheckout ==
    /\ \E capacity \in 0..MaxQuantity : lessons = [i \in {1} |-> NewLesson(capacity)]
    /\ nextId = 2
    /\ orders = <<>>
    /\ puts = [c \in Customers |-> IdlePut]
    /\ started = 0
    /\ resp = Response("none", 0)
    /\ placed \in [Customers -> [seats : 1..MaxQuantity, status : {0}]]
    /\ NoStorefront

CheckoutOrder(c) ==
    /\ placed[c].status = 0
    /\ PostOrder(CheckoutOrderBody(c))
    /\ placed' = [placed EXCEPT ![c].status = resp'.status]
    /\ UNCHANGED storefront

CheckoutPutBegin(c) ==
    /\ puts[c] = IdlePut
    /\ PutAvailabilityBegin(c, CheckoutPutBody(c))
    /\ UNCHANGED <<placed, storefront>>

CheckoutPutStep(c) ==
    /\ PutAvailabilityStep(c)
    /\ UNCHANGED <<placed, storefront>>

NextCheckout ==
    \/ \E c \in Customers : CheckoutOrder(c)
    \/ \E c \in Customers : CheckoutPutBegin(c)
    \/ \E c \in Customers : CheckoutPutStep(c)

SpecCheckout == InitCheckout /\ [][NextCheckout]_vars

\* every customer sends both requests, and the server, once a request is
\* in, runs its handler to the response
SpecCheckoutFair ==
    /\ SpecCheckout
    /\ \A c \in Customers :
          /\ WF_vars(CheckoutOrder(c))
          /\ WF_vars(CheckoutPutBegin(c))
          /\ WF_vars(CheckoutPutStep(c))

\* the customer has the response of both its requests
CheckedOut(c) == placed[c].status # 0 /\ ~Running(c) /\ puts[c].status # 0

Confirmed(c) == placed[c].status = 201
Rejected(c) == placed[c].status = 400

----------------------------------------------------------------------------
(* The catalog with several lessons: lessons are created, updated, read    *)
(* and deleted, and orders name them. The bodies are those of a lesson     *)
(* whose seats are all free, with or without a subject.                    *)

MaxCatalog == 2      \* ObjectIds insertOne may hand out: 1..MaxCatalog

CatalogIds == 0..MaxCatalog

CatalogBodies ==
    { body \in LessonBodies :
        /\ Has(body, "capacity") /\ Has(body, "availableSlots")
        /\ body["availableSlots"] = body["capacity"] }

CatalogOrderBodies ==
    { [name |-> "Ann", phone |-> "123", items |-> <<[lessonId |-> i]>>,
       total |-> 20, date |-> "2024-01-01"] : i \in 1..MaxCatalog }

NextCatalog ==
    \/ \E body \in CatalogBodies :
          /\ nextId <= MaxCatalog
          /\ PostLesson(body)
          /\ UNCHANGED <<placed, storefront>>
    \/ \E id \in CatalogIds, body \in CatalogBodies :
          PutLesson(id, body) /\ UNCHANGED <<placed, storefront>>
    \/ \E id \in CatalogIds :
          DeleteLesson(id) /\ UNCHANGED <<placed, storefront>>
    \/ \E id \in CatalogIds :
          GetLesson(id) /\ UNCHANGED <<placed, storefront>>
    \/ GetLessons /\ UNCHANGED <<placed, storefront>>
    \/ \E body \in CatalogOrderBodies :
          /\ Len(orders) + Inserted(body) <= MaxOrders
          /\ PostOrder(body)
          /\ UNCHANGED <<placed, storefront>>

SpecCatalog == Init /\ [][NextCatalog]_vars

----------------------------------------------------------------------------
(* The storefront cart: the Vue app's page, with lessons fetched, where the *)
(* customer adds lessons to the cart, removes cart entries and shows or    *)
(* hides the cart. A cart entry is the lesson object itself, so an entry   *)
(* is modelled by the lesson it refers to. The server is not called.       *)

NumShopLessons == 2  \* lessons on the page
MaxSpaces == 2       \* largest spaces a fetched lesson has

ShopLessons == 1..NumShopLessons

server == <<lessons, nextId, orders, puts, started, resp, placed>>

InitCart ==
    /\ lessons = NoLessons
    /\ nextId = 1
    /\ orders = <<>>
    /\ puts = [c \in Clients |-> IdlePut]
    /\ started = 0
    /\ resp = Response("none", 0)
    /\ placed = <<>>
    /\ shop \in [ShopLessons -> 0..MaxSpaces]
    /\ fetched = shop
    /\ cart = <<>>
    /\ showCart = FALSE

\* addToCart without the check of lesson.spaces
addToCartAlways(lesson) ==
    /\ shop' = [shop EXCEPT ![lesson] = @ - 1]
    /\ cart' = Append(cart, lesson)
    /\ UNCHANGED <<fetched, showCart, server>>

\* addToCart(lesson)
addToCart(lesson) ==
    /\ IF shop[lesson] > 0
       THEN /\ shop' = [shop EXCEPT ![lesson] = @ - 1]
            /\ cart' = Append(cart, lesson)
       ELSE UNCHANGED <<shop, cart>>
    /\ UNCHANGED <<fetched, showCart, server>>

\* toggleCart()
toggleCart ==
    /\ showCart' = ~showCart
    /\ UNCHANGED <<shop, fetched, cart, server>>

\* seq.splice(index, 1), with positions counted from 1: a position the
\* sequence does not have removes nothing
Splice(seq, index) ==
    IF index \in 1..Len(seq)
    THEN SubSeq(seq, 1, index - 1) \o SubSeq(seq, index + 1, Len(seq))
    ELSE seq

\* removeFromCart(item, index)
removeFromCart(item, index) ==
    /\ shop' = [shop EXCEPT ![item] = @ + 1]
    /\ cart' = Splice(cart, index)
    /\ showCart' = (IF Len(Splice(cart, index)) = 0 THEN FALSE ELSE showCart)
    /\ UNCHANGED <<fetched, server>>

\* the page calls removeFromCart with an entry of the cart and its position
NextCart ==
    \/ \E lesson \in ShopLessons : addToCart(lesson)
    \/ toggleCart
    \/ \E index \in 1..Len(cart) : removeFromCart(cart[index], index)

SpecCart == InitCart /\ [][NextCart]_vars

----------------------------------------------------------------------------
(* Properties *)

RECURSIVE SumQuantity(_, _)
\* the seats the order documents of seq hold for lesson id
SumQuantity(seq, id) ==
    IF seq = <<>> THEN 0
    ELSE (IF Has(Head(seq), "lessonId") /\ Head(seq)["lessonId"] = id
          THEN Head(seq)["quantity"] ELSE 0) + SumQuantity(Tail(seq), id)

HasSeats(id) == Has(lessons[id], "capacity") /\ Has(lessons[id], "availableSlots")

\* C1: every lesson that holds a capacity and an availableSlots has
\* 0 <= availableSlots <= capacity, in every reachable state.
SlotsWithinCapacity ==
    \A id \in DOMAIN lessons :
        HasSeats(id) =>
            /\ 0 <= lessons[id]["availableSlots"]
            /\ lessons[id]["availableSlots"] <= lessons[id]["capacity"]

\* C2: the quantities of the stored orders that name a lesson sum to at most
\* the lesson's capacity: no lesson is oversold.
NoLessonOversold ==
    \A id \in DOMAIN lessons :
        Has(lessons[id], "capacity") =>
            SumQuantity(orders, id) <= lessons[id]["capacity"]

\* C3: when all NumCheckouts customers have checked out one seat each of a
\* lesson created with k < NumCheckouts seats, exactly k are Confirmed with
\* an order stored, the others are Rejected, and availableSlots is 0.
OneSeatCheckoutsFillTheLesson ==
    LET k == lessons[1]["capacity"] IN
    ( /\ k < NumCheckouts
      /\ \A c \in Customers : placed[c].seats = 1 /\ CheckedOut(c) )
    => /\ Cardinality({c \in Customers : Confirmed(c)}) = k
       /\ Cardinality({c \in Customers : Rejected(c)}) = NumCheckouts - k
       /\ Len(orders) = k
       /\ lessons[1]["availableSlots"] = 0

RECURSIVE NetDecrement(_, _)
\* the seats the lines of seq have taken from lesson id
NetDecrement(seq, id) ==
    IF seq = <<>> THEN 0
    ELSE (IF Head(seq)["id"] = id THEN Head(seq)["quantity"] ELSE 0)
         + NetDecrement(Tail(seq), id)

\* the availability request of c has its response
Returned(c) == ~Running(c) /\ puts[c].status # 0

\* every line of seq reserves at least one seat
AllReserve(seq) == \A k \in 1..Len(seq) : seq[k]["quantity"] >= 1

\* C4: an availability request of reservations that failed at its second
\* line has taken no seat from the lesson of its first line: what it
\* decremented is restored when it returns.
FailedRequestRestoresSlots ==
    \A c \in DOMAIN puts :
        (Returned(c) /\ puts[c].status # 200 /\ AllReserve(puts[c].applied)) =>
            \A id \in RequestIds : NetDecrement(puts[c].applied, id) = 0

\* the line is a reservation of seats of a lesson that exists and counts seats
Reserves(line) ==
    /\ ~InvalidLine(line)
    /\ line["quantity"] >= 1
    /\ Exists(line["id"])
    /\ Has(lessons[line["id"]], "availableSlots")

\* C5: a reservation of q seats decrements availableSlots by q only if
\* availableSlots >= q; otherwise the request fails (400) and availableSlots
\* is unchanged.
ReserveOnlyWithinSlots ==
    [][\A c \in DOMAIN puts :
          (Running(c) /\ PutAvailabilityStep(c) /\ Reserves(Head(puts[c].lines))) =>
              LET line == Head(puts[c].lines)
                  slots == lessons[line["id"]]["availableSlots"]
              IN IF slots >= line["quantity"]
                 THEN lessons'[line["id"]]["availableSlots"] = slots - line["quantity"]
                 ELSE lessons' = lessons /\ puts'[c].status = 400]_vars

\* the order request has the shape the handler accepts and names, in item k,
\* a lesson id that no Lesson has
NamesUnknownLesson(body) ==
    /\ ~InvalidOrderData(body)
    /\ \E k \in 1..Len(body["items"]) :
          Has(body["items"][k], "lessonId") /\ ~Exists(body["items"][k]["lessonId"])

\* C6: a checkout that names a lesson id no Lesson has fails with NotFound
\* (404), stores no order and changes no lesson.
UnknownLessonIsNotFound ==
    [][\A body \in OrderBodies :
          (PostOrder(body) /\ NamesUnknownLesson(body)) =>
              resp'.status = 404 /\ orders' = orders /\ lessons' = lessons]_vars

\* two places of the sequence hold the same value of field f
Duplicates(seq, f) ==
    \E j, k \in 1..Len(seq) :
        j < k /\ Has(seq[j], f) /\ Has(seq[k], f) /\ seq[j][f] = seq[k][f]

\* C7: a checkout whose lines name the same lesson twice is rejected (400)
\* before any seat is reserved: no order is stored, no lesson changes, and the
\* availability request is over with no line applied.
DuplicateLessonIsRejected ==
    [][/\ \A body \in OrderBodies :
            (PostOrder(body) /\ ~InvalidOrderData(body)
                /\ Duplicates(body["items"], "lessonId")) =>
                resp'.status = 400 /\ orders' = orders /\ lessons' = lessons
       /\ \A c \in DOMAIN puts : \A body \in PutBodies :
            (PutAvailabilityBegin(c, body) /\ Has(body, "lessons")
                /\ Duplicates(body["lessons"], "id")) =>
                puts'[c] = Finished(400, <<>>)]_vars

\* the line holds a quantity below 1 for a lesson that exists
BelowOne(line) ==
    /\ Has(line, "id") /\ Has(line, "quantity")
    /\ line["quantity"] < 1
    /\ Exists(line["id"])

\* C8: a line of quantity < 1 (zero or negative) makes the availability
\* request fail as invalid (400) and changes no lesson: in particular it does
\* not increase availableSlots.
QuantityBelowOneIsRejected ==
    [][\A c \in DOMAIN puts :
          (Running(c) /\ PutAvailabilityStep(c) /\ BelowOne(Head(puts[c].lines))) =>
              lessons' = lessons /\ puts'[c].status = 400]_vars

\* the order request is invalid in shape: the handler's own check, or an item
\* that names no lesson
MalformedOrder(body) ==
    \/ InvalidOrderData(body)
    \/ \E k \in 1..Len(body["items"]) : ~Has(body["items"][k], "lessonId")

\* C9: a checkout of invalid shape returns a validation error (400) and does
\* nothing else: the orders and every lesson are as before the request, the
\* lines earlier in the same request included.
InvalidShapeChangesNothing ==
    [][/\ \A body \in OrderBodies :
            (PostOrder(body) /\ MalformedOrder(body)) =>
                resp'.status = 400 /\ orders' = orders /\ lessons' = lessons
       /\ \A c \in DOMAIN puts :
            (Running(c) /\ PutAvailabilityStep(c) /\ InvalidLine(Head(puts[c].lines))) =>
                puts'[c] = Finished(400, <<>>) /\ lessons' = lessons]_vars

\* a customer's checkout of all seats of the lesson of capacity 2 is over and
\* succeeded, and it left availableSlots = 0
SoldOut ==
    /\ lessons[1]["capacity"] = 2
    /\ lessons[1]["availableSlots"] = 0
    /\ \E a \in Customers :
          placed[a].seats = 2 /\ Confirmed(a) /\ Returned(a) /\ puts[a].status = 200

\* C10: once a checkout of 2 seats has succeeded on a new lesson of capacity
\* 2 and left availableSlots = 0, a later checkout of 1 seat fails (400),
\* stores no order, and availableSlots stays 0.
SoldOutLessonRejectsCheckout ==
    [][\A c \in Customers :
          (SoldOut /\ placed[c].seats = 1) =>
              /\ CheckoutOrder(c) => Rejected(c)' /\ orders' = orders
              /\ CheckoutPutStep(c) =>
                    puts'[c].status = 400 /\ lessons'[1]["availableSlots"] = 0]_vars

RECURSIVE ItemsPrice(_)
\* the price of one seat of each item's lesson, summed over the items
ItemsPrice(items) ==
    IF items = <<>> THEN 0
    ELSE lessons[Head(items)["lessonId"]]["price"] + ItemsPrice(Tail(items))

\* every item names a lesson that exists and has a price
AllPriced(items) ==
    \A k \in 1..Len(items) :
        /\ Has(items[k], "lessonId")
        /\ Exists(items[k]["lessonId"])
        /\ Has(lessons[items[k]["lessonId"]], "price")

\* C11: the total stored with an order is the sum over the request's lines of
\* quantity (1 per item) x the lesson's price in the catalog, whatever total
\* the request carries.
OrderTotalIsComputed ==
    [][\A body \in OrderBodies :
          (PostOrder(body) /\ ~InvalidOrderData(body) /\ AllPriced(body["items"])) =>
              \A k \in (Len(orders) + 1)..Len(orders') :
                  /\ Has(orders'[k], "total")
                  /\ orders'[k]["total"] = ItemsPrice(body["items"])]_vars

\* the creation request must be refused: an empty subject or location, or a
\* negative price or capacity
BadNewLesson(body) ==
    \/ ~TruthyText(body, "subject")
    \/ ~TruthyText(body, "location")
    \/ (Has(body, "price") /\ body["price"] < 0)
    \/ (Has(body, "capacity") /\ body["capacity"] < 0)

\* C12: creating a lesson with a capacity stores a lesson whose availableSlots
\* equals its capacity; a request with an empty subject or location or a
\* negative price or capacity is answered 400 and adds no lesson.
NewLessonHasAllSlots ==
    [][\A body \in LessonBodies :
          ((PostLesson(body) \/ PostLessonById(body)) /\ Has(body, "capacity")) =>
              IF BadNewLesson(body)
              THEN resp'.status = 400 /\ lessons' = lessons
              ELSE /\ nextId \in DOMAIN lessons'
                   /\ Has(lessons'[nextId], "availableSlots")
                   /\ lessons'[nextId]["availableSlots"] = body["capacity"]]_vars

\* the availableSlots of the document, as a set: empty when it holds none
SlotsOf(doc) == IF Has(doc, "availableSlots") THEN {doc["availableSlots"]} ELSE {}

\* C13: a lesson update leaves the lesson's availableSlots as it was, whatever
\* the body holds; an update of an id no Lesson has is answered 404 and
\* leaves every lesson unchanged.
UpdateKeepsSlots ==
    [][\A id \in LessonIds : \A body \in LessonBodies :
          PutLesson(id, body) =>
              /\ Exists(id) => /\ id \in DOMAIN lessons'
                               /\ SlotsOf(lessons'[id]) = SlotsOf(lessons[id])
              /\ (IsValidObjectId(id) /\ ~validateLesson(body) /\ ~Exists(id)) =>
                    resp'.status = 404 /\ lessons' = lessons]_vars

\* C14: deleting the id of a lesson removes that lesson and no other (a get
\* of the id then answers 404) and leaves the orders as they are; deleting an
\* id no Lesson has is answered 404 and changes nothing.
DeleteRemovesOnlyTheLesson ==
    [][\A id \in CatalogIds :
          (DeleteLesson(id) /\ IsValidObjectId(id)) =>
              /\ orders' = orders
              /\ IF id \in DOMAIN lessons
                 THEN /\ resp'.status = 200
                      /\ DOMAIN lessons' = DOMAIN lessons \ {id}
                      /\ \A other \in DOMAIN lessons' : lessons'[other] = lessons[other]
                      /\ GetLessonResponse(id)'.status = 404
                 ELSE /\ resp'.status = 404
                      /\ lessons' = lessons]_vars

\* a lesson was deleted while another lesson and an order are stored
DeletedOneOfTwo ==
    /\ resp.op = "deleteLesson" /\ resp.status = 200
    /\ DOMAIN lessons # {}
    /\ orders # <<>>

IsRead(r) == r.op \in {"getLesson", "getLessons"}

\* C15: reading one lesson or the list changes neither collection, and a
\* read that follows a read of the same id gets the same response.
ReadsChangeNothing ==
    [][IsRead(resp') =>
          /\ lessons' = lessons /\ nextId' = nextId /\ orders' = orders
          /\ (resp.op = "getLesson" /\ resp'.op = "getLesson" /\ resp'.id = resp.id) =>
                resp' = resp
          /\ (resp.op = "getLessons" /\ resp'.op = "getLessons") => resp' = resp]_vars

\* a read found the lesson the collection holds under the id
ReadFoundLesson ==
    /\ resp.op = "getLesson" /\ resp.status = 200
    /\ resp.found = {lessons[resp.id]}
    /\ Cardinality(DOMAIN lessons) > 1

\* C16: an order document, once stored, stays as it is and where it is:
\* every step leaves the stored orders as a prefix of the orders after it.
OrdersAreKept ==
    [][/\ Len(orders') >= Len(orders)
       /\ \A k \in 1..Len(orders) : orders'[k] = orders[k]]_vars

\* an order is still stored after the lesson it names was deleted
OrderOutlivesLesson ==
    /\ resp.op = "deleteLesson" /\ resp.status = 200
    /\ \E k \in 1..Len(orders) :
          Has(orders[k], "lessonId") /\ ~Exists(orders[k]["lessonId"])

RECURSIVE Taken(_, _)
\* the seats the availability requests of the customers in S have taken
\* from lesson id so far
Taken(S, id) ==
    IF S = {} THEN 0
    ELSE LET c == CHOOSE x \in S : TRUE
         IN NetDecrement(puts[c].applied, id) + Taken(S \ {c}, id)

\* no decrement is lost: availableSlots is the initial value less the
\* quantities of the decrements applied
NoLostDecrement ==
    lessons[1]["availableSlots"] = lessons[1]["capacity"] - Taken(Customers, 1)

\* C17: with the customers decrementing one lesson concurrently,
\* availableSlots is at every moment the initial value less the quantities
\* of the decrements applied (none is lost), and it is never negative.
DecrementsAddUpAndStayPositive ==
    /\ NoLostDecrement
    /\ lessons[1]["availableSlots"] >= 0

\* the order documents stored under the customer's name
OrdersFor(c) ==
    Cardinality({k \in 1..Len(orders) : orders[k]["customerName"] = ToString(c)})

\* C18: every checkout ends Confirmed or Rejected and stays so; a Confirmed
\* checkout has exactly one order document stored, a Rejected one has none.
CheckoutEndsWithOneOrder ==
    /\ \A c \in Customers : <>(Confirmed(c) \/ Rejected(c))
    /\ [][\A c \in Customers :
            placed[c].status # 0 => placed'[c].status = placed[c].status]_vars
    /\ [](\A c \in Customers :
            /\ Confirmed(c) => OrdersFor(c) = 1
            /\ Rejected(c) => OrdersFor(c) = 0)

\* C19: a step of the order route leaves every lesson as it is, and a step
\* of the availability route leaves the orders as they are.
OrdersAndSlotsAreApart ==
    [][/\ resp'.op = "postOrder" => lessons' = lessons
       /\ resp'.op = "putAvailability" => orders' = orders]_vars

\* both routes have acted on lesson 1: it is ordered, and a seat is taken
OrderedAndDecremented ==
    /\ resp.op \in {"postOrder", "putAvailability"}
    /\ SumQuantity(orders, 1) > 0
    /\ Exists(1) /\ HasSeats(1)
    /\ lessons[1]["availableSlots"] < lessons[1]["capacity"]
    /\ \E c \in Clients : NetDecrement(puts[c].applied, 1) > 0

\* the seats of the document are within its capacity
WithinCapacity(doc) ==
    /\ Has(doc, "capacity") /\ Has(doc, "availableSlots")
    /\ 0 <= doc["availableSlots"]
    /\ doc["availableSlots"] <= doc["capacity"]

Unmatched(line) ==
    /\ ~InvalidLine(line)
    /\ IsValidObjectId(line["id"])
    /\ ~Exists(line["id"])

\* C21: the turn of the loop on a line whose id no Lesson has only warns:
\* no lesson is changed or created, what the request applied stays applied,
\* the lines after it stay to be done, and the request answers 200 if the
\* line was its last and otherwise runs on.
UnmatchedLineIsSkipped ==
    [][\A c \in DOMAIN puts :
          (Running(c) /\ PutAvailabilityStep(c) /\ Unmatched(Head(puts[c].lines))) =>
              /\ lessons' = lessons
              /\ puts'[c].applied = puts[c].applied
              /\ puts'[c].lines = Tail(puts[c].lines)
              /\ puts'[c].status = (IF Len(puts[c].lines) = 1 THEN 200 ELSE 0)
              /\ resp'.status = puts'[c].status
              /\ "warn" \in DOMAIN resp']_vars

\* a request answered 200 after it decremented a lesson and then warned
\* about its last line
WarnedAndSucceeded ==
    /\ "warn" \in DOMAIN resp /\ resp.status = 200
    /\ \E c \in DOMAIN puts :
          /\ Returned(c) /\ puts[c].status = 200
          /\ puts[c].applied # <<>>
          /\ NetDecrement(puts[c].applied, 1) > 0

\* the order document stored for the item: the item's lessonId if it has
\* one, the request's name, total and date, and quantity 1
StoredFor(order, body, item) ==
    /\ Has(order, "lessonId") = Has(item, "lessonId")
    /\ Has(item, "lessonId") => order["lessonId"] = item["lessonId"]
    /\ order["customerName"] = body["name"]
    /\ order["quantity"] = 1
    /\ order["total"] = body["total"]
    /\ order["date"] = body["date"]

\* C22: an order request the handler does not refuse is answered 201 and
\* adds, after the orders stored before, one document per item in the order
\* of the items, each as StoredFor says, whatever lessons exist and whatever
\* seats they have left; no lesson changes.
OneRecordPerItem ==
    [][(resp'.op = "postOrder" /\ resp'.status # 400) =>
          \A body \in OrderBodies :
              (~InvalidOrderData(body) /\ PostOrder(body)) =>
                  LET n == Len(body["items"]) IN
                  /\ resp'.status = 201
                  /\ resp'.insertedIds = (Len(orders) + 1)..(Len(orders) + n)
                  /\ Len(orders') = Len(orders) + n
                  /\ \A k \in 1..Len(orders) : orders'[k] = orders[k]
                  /\ \A k \in 1..n :
                        StoredFor(orders'[Len(orders) + k], body, body["items"][k])
                  /\ lessons' = lessons]_vars

\* one request has just stored two documents, the first for a lesson that
\* does not exist
TwoRecordsForUnknownLesson ==
    /\ resp.op = "postOrder" /\ resp.status = 201
    /\ resp.insertedIds = 1..2
    /\ Len(orders) = 2
    /\ Has(orders[1], "lessonId") /\ ~Exists(orders[1]["lessonId"])
    /\ ~Has(orders[2], "lessonId")

\* the entries of the cart that are the lesson
CartEntries(lesson) == Cardinality({k \in 1..Len(cart) : cart[k] = lesson})

\* C23: on the storefront page, whatever the customer adds and removes,
\* every lesson has spaces >= 0 and its spaces plus its entries in the cart
\* are the spaces it was fetched with; addToCart on a lesson with no space
\* changes nothing; removing the only entry of the cart hides the cart.
CartKeepsSpaces ==
    /\ [](\A lesson \in DOMAIN shop :
            /\ shop[lesson] >= 0
            /\ shop[lesson] + CartEntries(lesson) = fetched[lesson])
    /\ [][/\ \A lesson \in DOMAIN shop :
               (addToCart(lesson) /\ shop[lesson] = 0) => UNCHANGED storefront
          /\ \A index \in 1..Len(cart) :
               (removeFromCart(cart[index], index) /\ Len(cart) = 1) =>
                     cart' = <<>> /\ showCart' = FALSE]_vars

\* the cart is shown and holds every space of a lesson fetched with two and
\* an entry of the other lesson before it
CartHoldsAllSpaces ==
    /\ showCart
    /\ Len(cart) = 3 /\ cart[1] = 2 /\ cart[2] = 1 /\ cart[3] = 1
    /\ shop[1] = 0 /\ fetched[1] = 2

====
